---- MODULE Spec2Model ----
(***************************************************************************)
(* Model of pkg/driver/postgres/postgres.go: the PostgreSQL driver of the  *)
(* migration tool.  Strings the code splits, trims or compares are         *)
(* sequences of one-character strings; the database server and the        *)
(* database/sql handles are the environment, modelled by what the driver   *)
(* can observe of them (statement results and engine error codes).         *)
(***************************************************************************)
EXTENDS Integers, Sequences, FiniteSets, TLC

VARIABLES
    databaseURL,          \* Driver.databaseURL: [path, user, search_path]
    pgdatabase,           \* the PGDATABASE environment variable
    migrationsTableName,  \* Driver.migrationsTableName
    databaseName,         \* Driver.databaseName
    server,               \* the database server: [dbExists, catalog, canCreateSchema]
    openHandles,          \* handles opened by the driver and not closed yet
    last,                 \* the last call: operation, arguments, results, statements issued
    bootstrapped,         \* history: schema the immediately preceding CreateMigrationsTable created
    applied               \* history: versions inserted and not deleted since, by successful calls

vars == <<databaseURL, pgdatabase, migrationsTableName, databaseName,
          server, openHandles, last, bootstrapped, applied>>

----------------------------------------------------------------------------
(* Bounds *)

\* number of distinct migration versions the ledger can hold
NumVersions == 2
\* SelectMigrations is called with limit in -1 .. MaxLimit
MaxLimit == 2

----------------------------------------------------------------------------
(* strings *)

\* strings.HasPrefix(s, p)
HasPrefix(s, p) == Len(p) <= Len(s) /\ SubSeq(s, 1, Len(p)) = p

RECURSIVE SplitAcc(_, _, _)
SplitAcc(s, sep, cur) ==
    IF s = <<>> THEN <<cur>>
    ELSE IF HasPrefix(s, sep)
         THEN <<cur>> \o SplitAcc(SubSeq(s, Len(sep) + 1, Len(s)), sep, <<>>)
    ELSE SplitAcc(Tail(s), sep, Append(cur, Head(s)))

\* strings.Split(s, sep) for a non-empty separator
Split(s, sep) == SplitAcc(s, sep, <<>>)

RECURSIVE Join(_, _)
\* strings.Join(parts, sep)
Join(parts, sep) ==
    IF parts = <<>> THEN <<>>
    ELSE IF Len(parts) = 1 THEN parts[1]
    ELSE parts[1] \o sep \o Join(Tail(parts), sep)

Whitespace == {" ", "\t"}

RECURSIVE TrimLeft(_)
TrimLeft(s) ==
    IF s # <<>> /\ Head(s) \in Whitespace THEN TrimLeft(Tail(s)) ELSE s

RECURSIVE TrimRight(_)
TrimRight(s) ==
    IF s # <<>> /\ s[Len(s)] \in Whitespace
    THEN TrimRight(SubSeq(s, 1, Len(s) - 1)) ELSE s

\* strings.TrimSpace
TrimSpace(s) == TrimRight(TrimLeft(s))

\* the characters quote_ident leaves unquoted (after the first: also digits)
IdentStart == {"a", "b", "c", "d", "e", "f", "g", "h", "i", "j", "k", "l", "m",
               "n", "o", "p", "q", "r", "s", "t", "u", "v", "w", "x", "y", "z", "_"}
Digits == <<"0", "1", "2", "3", "4", "5", "6", "7", "8", "9">>
DigitSet == {Digits[i] : i \in 1..Len(Digits)}

RECURSIVE DoubleChar(_, _)
\* s with every occurrence of the character c doubled
DoubleChar(s, c) ==
    IF s = <<>> THEN <<>>
    ELSE IF Head(s) = c THEN <<c, c>> \o DoubleChar(Tail(s), c)
    ELSE <<Head(s)>> \o DoubleChar(Tail(s), c)

RECURSIVE UndoubleChar(_, _)
UndoubleChar(s, c) ==
    IF s = <<>> THEN <<>>
    ELSE IF Len(s) > 1 /\ s[1] = c /\ s[2] = c
         THEN <<c>> \o UndoubleChar(Tail(Tail(s)), c)
    ELSE <<Head(s)>> \o UndoubleChar(Tail(s), c)

\* the server's quote_ident(text)
QuoteIdent(s) ==
    IF /\ s # <<>>
       /\ s[1] \in IdentStart
       /\ \A i \in 1..Len(s) : s[i] \in IdentStart \cup DigitSet
    THEN s
    ELSE <<"\"">> \o DoubleChar(s, "\"") \o <<"\"">>

\* the server reading an identifier of a statement back
ParseIdent(q) ==
    IF Len(q) >= 2 /\ q[1] = "\"" /\ q[Len(q)] = "\""
    THEN UndoubleChar(SubSeq(q, 2, Len(q) - 1), "\"")
    ELSE q

\* the server's quote_literal(text), for text without backslashes
QuoteLiteral(s) == <<"'">> \o DoubleChar(s, "'") \o <<"'">>

\* the text a quoted literal stands for
UnquoteLiteral(q) == UndoubleChar(SubSeq(q, 2, Len(q) - 1), "'")

\* a query's function applied to every row
QuoteIdents(rows) == [i \in 1..Len(rows) |-> QuoteIdent(rows[i])]
QuoteLiterals(rows) == [i \in 1..Len(rows) |-> QuoteLiteral(rows[i])]
UnquoteLiterals(rows) == [i \in 1..Len(rows) |-> UnquoteLiteral(rows[i])]

\* position of a character in the server's collation of version strings
CharRank(c) == CHOOSE i \in 1..Len(Digits) : Digits[i] = c

RECURSIVE StrLess(_, _)
\* a sorts before b ("order by version" on a varchar column)
StrLess(a, b) ==
    IF b = <<>> THEN FALSE
    ELSE IF a = <<>> THEN TRUE
    ELSE IF Head(a) = Head(b) THEN StrLess(Tail(a), Tail(b))
    ELSE CharRank(Head(a)) < CharRank(Head(b))

RECURSIVE OrderAsc(_)
\* the rows of a set in ascending order
OrderAsc(S) ==
    IF S = {} THEN <<>>
    ELSE LET m == CHOOSE x \in S : \A y \in S \ {x} : StrLess(x, y)
         IN  <<m>> \o OrderAsc(S \ {m})

RECURSIVE Reverse(_)
Reverse(s) == IF s = <<>> THEN <<>> ELSE Append(Reverse(Tail(s)), Head(s))

\* "order by version desc"
OrderDesc(S) == Reverse(OrderAsc(S))

\* "limit n" on a result
Limit(rows, n) == SubSeq(rows, 1, IF n < Len(rows) THEN n ELSE Len(rows))

Range(s) == {s[i] : i \in 1..Len(s)}

----------------------------------------------------------------------------
(* errors *)

Nil == [type |-> "nil", code |-> ""]
\* a *pq.Error with the given SQLSTATE
PqError(c) == [type |-> "pq", code |-> c]
\* an error that is no *pq.Error (network failure, driver.ErrBadConn, ...)
NetError == [type |-> "net", code |-> ""]

\* errors.As(err, &pqerr) / err.(*pq.Error): the driver hands *pq.Error
\* values over unwrapped, so both test the dynamic type of err
IsPqError(e) == e.type = "pq"

DatabaseDoesNotExist == "3D000"
SchemaDoesNotExist == "3F000"
InsufficientPrivilege == "42501"
InvalidPassword == "28P01"
DuplicateDatabase == "42P04"
UndefinedTable == "42P01"
UniqueViolation == "23505"

----------------------------------------------------------------------------
(* fixed texts of the driver *)

DumpHeader ==
    <<"\n", "-", "-", "\n", "-", "-", " ", "D", "b", "m", "a", "t", "e", " ",
      "s", "c", "h", "e", "m", "a", " ", "m", "i", "g", "r", "a", "t", "i",
      "o", "n", "s", "\n", "-", "-", "\n", "\n">>
InsertInto ==
    <<"I", "N", "S", "E", "R", "T", " ", "I", "N", "T", "O", " ">>
VersionValues ==
    <<" ", "(", "v", "e", "r", "s", "i", "o", "n", ")", " ", "V", "A", "L",
      "U", "E", "S", "\n", " ", " ", " ", " ", "(">>
RowSeparator ==
    <<")", ",", "\n", " ", " ", " ", " ", "(">>
InsertEnd ==
    <<")", ";", "\n">>
Public ==
    <<"p", "u", "b", "l", "i", "c">>
Postgres ==
    <<"p", "o", "s", "t", "g", "r", "e", "s">>
Dot == <<".">>
Comma == <<",">>

----------------------------------------------------------------------------
(* the database server, as the driver observes it *)

\* a statement sent over a handle: kind, the (quoted) name it addresses, argument
Stmt(kind, text, arg) == [kind |-> kind, text |-> text, arg |-> arg]

Reply(e, v, srv) == [err |-> e, val |-> v, srv |-> srv]

RECURSIVE QuotedEnd(_, _)
\* index of the quote closing the quoted identifier that opens at s[1]
QuotedEnd(s, i) ==
    IF i > Len(s) THEN Len(s)
    ELSE IF s[i] # "\"" THEN QuotedEnd(s, i + 1)
    ELSE IF i < Len(s) /\ s[i + 1] = "\"" THEN QuotedEnd(s, i + 2)
    ELSE i

RECURSIVE BareEnd(_, _)
\* index of the last character before the first dot at or after s[i]
BareEnd(s, i) ==
    IF i > Len(s) THEN Len(s)
    ELSE IF s[i] = "." THEN i - 1
    ELSE BareEnd(s, i + 1)

\* the schema a statement's qualified name addresses: its first identifier
SchemaOf(text) ==
    ParseIdent(SubSeq(text, 1, IF text # <<>> /\ text[1] = "\""
                               THEN QuotedEnd(text, 2) ELSE BareEnd(text, 1)))

\* rows of the ledger table of a schema
RowsOf(srv, schema) == {r[2] : r \in {x \in srv.rows : x[1] = schema}}

\* select current_schema(): the session's schema when it exists, else NULL
CurrentSchema(srv) ==
    IF srv.searchPath \in srv.schemas THEN srv.searchPath ELSE <<>>

\* the rows a select on the ledger returns: ordered, limited, quoted
Ordered(rows, arg) == IF arg.order = "asc" THEN OrderAsc(rows) ELSE OrderDesc(rows)
Limited(sorted, arg) == IF arg.limited THEN Limit(sorted, arg.limit) ELSE sorted
Quoted(cut, arg) == IF arg.quoted THEN QuoteLiterals(cut) ELSE cut
SelectRows(rows, arg) == Quoted(Limited(Ordered(rows, arg), arg), arg)

\* what the server answers to a statement on the given schema's ledger
Answer(srv, stmt, schema) ==
    CASE stmt.kind = "open" -> Reply(Nil, <<>>, srv)
      [] stmt.kind = "rows" -> Reply(Nil, <<>>, srv)
      [] stmt.kind = "create_database" ->
            IF srv.dbExists
            THEN Reply(PqError(DuplicateDatabase), <<>>, srv)
            ELSE Reply(Nil, <<>>, [srv EXCEPT !.dbExists = TRUE, !.schemas = {Public},
                                              !.tables = {}, !.rows = {}])
      [] stmt.kind = "drop_database" ->
            Reply(Nil, <<>>, [srv EXCEPT !.dbExists = FALSE, !.schemas = {},
                                         !.tables = {}, !.rows = {}])
      [] ~srv.dbExists -> Reply(PqError(DatabaseDoesNotExist), <<>>, srv)
      [] stmt.kind = "ping" -> Reply(Nil, <<>>, srv)
      [] stmt.kind = "current_schema" -> Reply(Nil, CurrentSchema(srv), srv)
      [] stmt.kind = "quote_ident" -> Reply(Nil, QuoteIdents(stmt.arg), srv)
      [] stmt.kind = "create_table" ->
            IF schema \notin srv.schemas
            THEN Reply(PqError(SchemaDoesNotExist), <<>>, srv)
            ELSE Reply(Nil, <<>>, [srv EXCEPT !.tables = @ \cup {schema}])
      [] stmt.kind = "create_schema" ->
            IF ~srv.canCreateSchema
            THEN Reply(PqError(InsufficientPrivilege), <<>>, srv)
            ELSE Reply(Nil, <<>>, [srv EXCEPT !.schemas = @ \cup {schema}])
      [] schema \notin srv.tables -> Reply(PqError(UndefinedTable), <<>>, srv)
      [] stmt.kind = "select" ->
            Reply(Nil, SelectRows(RowsOf(srv, schema), stmt.arg), srv)
      [] stmt.kind = "insert" ->
            IF <<schema, stmt.arg>> \in srv.rows
            THEN Reply(PqError(UniqueViolation), <<>>, srv)
            ELSE Reply(Nil, <<>>, [srv EXCEPT !.rows = @ \cup {<<schema, stmt.arg>>}])
      [] stmt.kind = "delete" ->
            Reply(Nil, <<>>, [srv EXCEPT !.rows = @ \ {<<schema, stmt.arg>>}])

\* what the server answers to a statement when nothing else goes wrong
Natural(srv, stmt) == Answer(srv, stmt, SchemaOf(stmt.text))

\* a call in progress: the server, the statements issued so far with their
\* results, the lines written to the log, the handles the call holds open
Run(srv) == [srv |-> srv, events |-> <<>>, log |-> <<>>, handles |-> 0]

\* the statement and its result added to the call
Issued(run, stmt, out) ==
    [err |-> out.err,
     val |-> out.val,
     run |-> [run EXCEPT !.srv = out.srv,
                         !.events = Append(@, [stmt |-> stmt.kind,
                                               text |-> stmt.text,
                                               err |-> out.err])]]

\* db.Exec / db.Query / db.QueryRow / db.Ping / sql.Open: the statement's
\* result is the injected failure when the call's fault plan names this
\* statement (sql.Open fails with no engine error: it does not connect), and
\* the server's answer otherwise
Exec(run, env, stmt) ==
    Issued(run, stmt,
           IF env.faultAt = Len(run.events) + 1
           THEN Reply(IF stmt.kind = "open" THEN NetError ELSE env.faultErr,
                      <<>>, run.srv)
           ELSE Natural(run.srv, stmt))

\* what a handler returns: error, value, and the call's run
Ret(e, v, run) == [err |-> e, out |-> v, run |-> run]

\* fmt.Fprintf(drv.log, text, arg)
Logged(run, text, arg) == [run EXCEPT !.log = Append(@, [text |-> text, arg |-> arg])]

----------------------------------------------------------------------------
(* the driver *)

\* the user name tried before PGDATABASE
resolveDatabaseNameUserFirst(u, env) ==
    LET name1 == IF Len(u.path) > 0 /\ u.path[1] = "/" THEN Tail(u.path) ELSE u.path
        name2 == IF name1 = <<>> /\ u.user.set THEN u.user.username ELSE name1
        name3 == IF name2 = <<>> THEN env ELSE name2
    IN  name3

\* resolveDatabaseName(u), with env the value of PGDATABASE
resolveDatabaseName(u, env) ==
    LET name1 == IF Len(u.path) > 0 /\ u.path[1] = "/" THEN Tail(u.path) ELSE u.path
        name2 == IF name1 = <<>> THEN env ELSE name1
        name3 == IF name2 = <<>> /\ u.user.set THEN u.user.username ELSE name2
    IN  name3

\* the schema and the table name parts taken from the split name
NameParts(tableNameParts) ==
    IF Len(tableNameParts) > 1
    THEN [schema |-> tableNameParts[1], parts |-> Tail(tableNameParts)]
    ELSE [schema |-> <<>>, parts |-> tableNameParts]

\* the schema taken from names of exactly two parts only
SplitTableNameTwoParts(name) ==
    IF Len(Split(name, Dot)) = 2 THEN NameParts(Split(name, Dot))
    ELSE [schema |-> <<>>, parts |-> Split(name, Dot)]

\* the schema segment and the table name parts of the configured name
SplitTableName(name) == NameParts(Split(name, Dot))

\* the first entry of the URL's search_path parameter, trimmed
SearchPathSchema(u) == TrimSpace(Split(u.search_path, Comma)[1])

\* the schema of the name, or else of the search path
NamedSchema(named, u) ==
    IF named.schema = <<>> THEN SearchPathSchema(u) ELSE named.schema

\* no last resort
DefaultSchemaNone(schema) == schema

\* the last resort: the public schema
DefaultSchema(schema) == IF schema = <<>> THEN Public ELSE schema

\* what migrationsTableNameParts returns
Parts(schema, parts, e, run) == [schema |-> schema, parts |-> parts, err |-> e, run |-> run]

\* the result of the current-schema query taken as the schema
FromCurrentSchema(parts, q) ==
    IF q.err # Nil THEN Parts(<<>>, <<>>, q.err, q.run)
    ELSE Parts(DefaultSchema(q.val), parts, Nil, q.run)

\* the schema settled: as given, or else asked of the connection
SettleSchema(run, env, parts, schema) ==
    IF schema # <<>> THEN Parts(DefaultSchema(schema), parts, Nil, run)
    ELSE FromCurrentSchema(parts, Exec(run, env, Stmt("current_schema", <<>>, <<>>)))

\* the schema looked up for the split name
LocateTable(run, env, u, named) ==
    SettleSchema(run, env, named.parts, NamedSchema(named, u))

\* Driver.migrationsTableNameParts
migrationsTableNameParts(drv, run, env) ==
    LocateTable(run, env, drv.databaseURL, SplitTableName(drv.migrationsTableName))

\* what quotedMigrationsTableNameParts returns
QuotedParts(schema, name, e, run) == [schema |-> schema, name |-> name, err |-> e, run |-> run]

\* the quoted parts read from the quote_ident query
FromQuoteIdent(q) ==
    IF q.err # Nil THEN QuotedParts(<<>>, <<>>, q.err, q.run)
    ELSE QuotedParts(q.val[1], Join(Tail(q.val), Dot), Nil, q.run)

\* the located parts sent to the server for quoting
QuoteParts(env, r) ==
    IF r.err # Nil THEN QuotedParts(<<>>, <<>>, r.err, r.run)
    ELSE FromQuoteIdent(Exec(r.run, env, Stmt("quote_ident", <<>>, <<r.schema>> \o r.parts)))

\* Driver.quotedMigrationsTableNameParts
quotedMigrationsTableNameParts(drv, run, env) ==
    QuoteParts(env, migrationsTableNameParts(drv, run, env))

\* schema + "." + name
QualifiedName(r) ==
    IF r.err # Nil THEN [name |-> <<>>, err |-> r.err, run |-> r.run]
    ELSE [name |-> r.schema \o Dot \o r.name, err |-> Nil, run |-> r.run]

\* Driver.quotedMigrationsTableName
quotedMigrationsTableName(drv, run, env) ==
    QualifiedName(quotedMigrationsTableNameParts(drv, run, env))

\* the retry taken on any engine error
IsAnyEngineError(e) == IsPqError(e)

\* whether the first create table's failure is the one the retry is for
IsSchemaMissing(e) == IsPqError(e) /\ e.code = SchemaDoesNotExist

\* the create table statement of CreateMigrationsTable
CreateTableStmt(q) == Stmt("create_table", q.schema \o Dot \o q.name, <<>>)

\* second and final attempt at creating the table
SecondAttempt(second) == Ret(second.err, <<>>, second.run)

\* the schema created, then the second attempt
AfterCreateSchema(env, q, mk) ==
    IF mk.err # Nil THEN Ret(mk.err, <<>>, mk.run)
    ELSE SecondAttempt(Exec(mk.run, env, CreateTableStmt(q)))

\* the first attempt's result: done, fatal, or the schema to be created
AfterFirstAttempt(env, q, first) ==
    IF first.err = Nil THEN Ret(Nil, <<>>, first.run)
    ELSE IF ~IsSchemaMissing(first.err) THEN Ret(first.err, <<>>, first.run)
    ELSE AfterCreateSchema(env, q,
            Exec(Logged(first.run, "Creating schema: %s\n", q.schema), env,
                 Stmt("create_schema", q.schema, <<>>)))

\* the schema created before the only attempt at the table
CreateSchemaThenTable(env, q) ==
    IF q.err # Nil THEN Ret(q.err, <<>>, q.run)
    ELSE AfterCreateSchema(env, q,
            Exec(Logged(q.run, "Creating schema: %s\n", q.schema), env,
                 Stmt("create_schema", q.schema, <<>>)))

\* the table created in the quoted schema
CreateTable(env, q) ==
    IF q.err # Nil THEN Ret(q.err, <<>>, q.run)
    ELSE AfterFirstAttempt(env, q, Exec(q.run, env, CreateTableStmt(q)))

\* Driver.CreateMigrationsTable
CreateMigrationsTable(drv, run, env) ==
    CreateTable(env, quotedMigrationsTableNameParts(drv, run, env))

\* the limit left out for limit 0 as well
SelectQueryPositive(limit) ==
    [order |-> "desc", limited |-> limit > 0, limit |-> limit, quoted |-> FALSE]

\* the query SelectMigrations sends: descending, limited when limit >= 0
SelectQuery(limit) ==
    [order |-> "desc", limited |-> limit >= 0, limit |-> limit, quoted |-> FALSE]

\* rows.Err() after the loop
AfterRows(versions, iter) ==
    IF iter.err # Nil THEN Ret(iter.err, {}, iter.run)
    ELSE Ret(Nil, versions, iter.run)

\* the rows scanned into the map
ScanRows(env, name, rows) ==
    IF rows.err # Nil THEN Ret(rows.err, {}, rows.run)
    ELSE AfterRows(Range(rows.val), Exec(rows.run, env, Stmt("rows", name, <<>>)))

\* the versions queried from the ledger table
QueryVersions(env, limit, t) ==
    IF t.err # Nil THEN Ret(t.err, {}, t.run)
    ELSE ScanRows(env, t.name, Exec(t.run, env, Stmt("select", t.name, SelectQuery(limit))))

\* Driver.SelectMigrations: the versions scanned into the map
SelectMigrations(drv, run, env, limit) ==
    QueryVersions(env, limit, quotedMigrationsTableName(drv, run, env))

\* a statement's error returned
Done(x) == Ret(x.err, <<>>, x.run)

\* one statement with a version on the ledger table
ExecOnLedger(env, kind, version, t) ==
    IF t.err # Nil THEN Ret(t.err, <<>>, t.run)
    ELSE Done(Exec(t.run, env, Stmt(kind, t.name, version)))

\* Driver.InsertMigration
InsertMigration(drv, run, env, version) ==
    ExecOnLedger(env, "insert", version, quotedMigrationsTableName(drv, run, env))

\* Driver.DeleteMigration
DeleteMigration(drv, run, env, version) ==
    ExecOnLedger(env, "delete", version, quotedMigrationsTableName(drv, run, env))

\* the dump reading the ledger in descending order
DumpQueryDescending == [order |-> "desc", limited |-> FALSE, limit |-> 0, quoted |-> TRUE]

\* the query of the dump: every version, quoted by the server, ascending
DumpQuery == [order |-> "asc", limited |-> FALSE, limit |-> 0, quoted |-> TRUE]

\* the bytes written to the buffer for the rows read
DumpBody(migrationsTable, migrations) ==
    DumpHeader \o
    (IF Len(migrations) > 0
     THEN InsertInto \o migrationsTable \o VersionValues \o
          Join(migrations, RowSeparator) \o InsertEnd
     ELSE <<>>)

\* the buffer built from the applied migrations loaded
BuildDump(name, migrations) ==
    IF migrations.err # Nil THEN Ret(migrations.err, <<>>, migrations.run)
    ELSE Ret(Nil, DumpBody(name, migrations.val), migrations.run)

\* the applied migrations loaded from the ledger table
LoadMigrations(env, t) ==
    IF t.err # Nil THEN Ret(t.err, <<>>, t.run)
    ELSE BuildDump(t.name, Exec(t.run, env, Stmt("select", t.name, DumpQuery)))

\* Driver.schemaMigrationsDump
schemaMigrationsDump(drv, run, env) ==
    LoadMigrations(env, quotedMigrationsTableName(drv, run, env))

\* dbutil.MustClose(db), deferred: the handle is released when the call returns
MustClose(run) ==
    [run EXCEPT !.handles = @ - 1,
                !.events = Append(@, [stmt |-> "close", text |-> <<>>, err |-> Nil])]

\* sql.Open handing a handle over
Opened(run) == [run EXCEPT !.handles = @ + 1]

\* the statement's error returned, with the handle closed on the way out
Deferred(x) == Ret(x.err, <<>>, MustClose(x.run))

\* the statement's error returned, the handle closed only when it succeeded
DeferredOnSuccess(x) ==
    IF x.err # Nil THEN Ret(x.err, <<>>, x.run) ELSE Ret(x.err, <<>>, MustClose(x.run))

\* the statement on the handle, with the close forgotten on the error path
OnHandleCloseOnSuccess(env, stmt, o) ==
    IF o.err # Nil THEN Ret(o.err, <<>>, o.run)
    ELSE DeferredOnSuccess(Exec(Opened(o.run), env, stmt))

\* one statement on the handle just opened, if it was
OnHandle(env, stmt, o) ==
    IF o.err # Nil THEN Ret(o.err, <<>>, o.run)
    ELSE Deferred(Exec(Opened(o.run), env, stmt))

\* Driver.ping
ping(drv, run, env) ==
    OnHandle(env, Stmt("ping", <<>>, <<>>),
             Exec(run, env, Stmt("open", drv.databaseURL.path, <<>>)))

\* the named result err of Ping: nil, and set to nil in the branch
PingResult(probe) ==
    LET err0 == Nil
    IN  Ret(IF IsPqError(probe.err) /\ probe.err.code = DatabaseDoesNotExist
            THEN Nil ELSE err0,
            <<>>, probe.run)

\* Driver.Ping
Ping(drv, run, env) == PingResult(ping(drv, run, env))

\* the probe's failure returned whatever its code
ExistsUnlessFailure(probe) ==
    IF probe.err = Nil THEN Ret(Nil, TRUE, probe.run)
    ELSE Ret(probe.err, FALSE, probe.run)

\* the three outcomes of DatabaseExists
ExistsResult(probe) ==
    IF probe.err = Nil THEN Ret(Nil, TRUE, probe.run)
    ELSE IF IsPqError(probe.err) /\ probe.err.code = DatabaseDoesNotExist
    THEN Ret(Nil, FALSE, probe.run)
    ELSE Ret(probe.err, FALSE, probe.run)

\* Driver.DatabaseExists
DatabaseExists(drv, run, env) == ExistsResult(ping(drv, run, env))

\* pq.QuoteIdentifier
QuoteIdentifier(name) == <<"\"">> \o DoubleChar(name, "\"") \o <<"\"">>

\* Driver.openMaintenanceDB followed by one statement on the handle
MaintenanceExec(drv, run, env, kind) ==
    OnHandle(env, Stmt(kind, QuoteIdentifier(drv.databaseName), <<>>),
             Exec(run, env, Stmt("open", Postgres, <<>>)))

\* Driver.CreateDatabase
CreateDatabase(drv, run, env) ==
    MaintenanceExec(drv, Logged(run, "Creating: %s\n", drv.databaseName),
                    env, "create_database")

\* Driver.DropDatabase
DropDatabase(drv, run, env) ==
    MaintenanceExec(drv, Logged(run, "Dropping: %s\n", drv.databaseName),
                    env, "drop_database")

----------------------------------------------------------------------------
(* inputs *)

NoUser == [set |-> FALSE, username |-> <<>>]
User(name) == [set |-> TRUE, username |-> name]

VersionList ==
    << <<"2", "0", "2", "3", "0", "1", "0", "1">>,
       <<"2", "0", "2", "3", "0", "1", "0", "2">>,
       <<"9">>,
       <<"1", "0">>,
       <<"1">> >>
Versions == {VersionList[i] : i \in 1..NumVersions}

Limits == (0 - 1)..MaxLimit

\* the failures the environment can inject into a statement of a call
FaultErrors == {NetError, PqError(InvalidPassword), PqError(SchemaDoesNotExist)}
NoFault == [faultAt |-> 0, faultErr |-> Nil]
\* the fault plans of a call that issues at most n statements
Faults(n) == {NoFault} \cup [faultAt : 1..n, faultErr : FaultErrors]

\* configured ledger table names: plain, with a schema, with two dots,
\* with an empty first segment, empty, with a blank schema
TableNames ==
    { <<"t">>, <<"s", ".", "t">>, <<"s", ".", "t", ".", "u">>, <<".", "t">>,
      <<>>, <<"S", ".", "t">>, <<" ", ".", "t">>, <<".", "t", ".", "u">> }

\* values of the URL's search_path parameter
SearchPaths ==
    { <<>>, <<"a">>, <<" ", "a", " ", ",", "b">>, <<",", "b">>, <<" ", ",", "b">>,
      <<"a", ",", "b">>, <<" ">>, <<"\t", "b", " ">> }

\* schemas the session can be in
SessionSchemas == {Public, <<"x">>, <<"S">>}

UrlPaths == { <<>>, <<"/">>, <<"/", "d", "b">>, <<"d", "b">>, <<"/", "/">>,
              <<"/", "d", "/", "e">> }
UrlUsers == {NoUser, User(<<>>), User(<<"u">>), User(<<"b", "o", "b">>)}
EnvNames == { <<>>, <<"e">>, <<"e", "n", "v">> }

----------------------------------------------------------------------------
(* state *)

Drv == [migrationsTableName |-> migrationsTableName,
        databaseURL |-> databaseURL,
        databaseName |-> databaseName]

\* the driver has been constructed
Built == last.op # "none"

Start == [op |-> "NewDriver", arg |-> <<>>, err |-> Nil, out |-> <<>>,
          events |-> <<>>, log |-> <<>>, fault |-> 0, follows |-> <<>>]

\* the statement (1-based) of the call at which a failure was injected, or 0
Injected(env, events) ==
    IF /\ env.faultAt \in 1..Len(events)
       /\ events[env.faultAt].stmt # "close"
    THEN env.faultAt ELSE 0

\* the schema a CreateMigrationsTable call created on its way, or <<>>
CreatedSchema(op, r) ==
    LET made == {i \in 1..Len(r.run.events) :
                    /\ r.run.events[i].stmt = "create_schema"
                    /\ r.run.events[i].err = Nil}
    IN  IF op = "CreateMigrationsTable" /\ r.err = Nil /\ made # {}
        THEN SchemaOf(r.run.events[CHOOSE i \in made : TRUE].text)
        ELSE <<>>

\* the versions applied and not rolled back, after a call
Applied(op, arg, r) ==
    IF r.err # Nil THEN applied
    ELSE IF op = "InsertMigration" THEN applied \cup {arg}
    ELSE IF op = "DeleteMigration" THEN applied \ {arg}
    ELSE IF op = "DropDatabase" THEN {}
    ELSE applied

\* a call returns: the server keeps the statements' effects, the handles the
\* call left open stay open, and the call is recorded
Return(op, arg, r, env) ==
    /\ server' = r.run.srv
    /\ openHandles' = openHandles + r.run.handles
    /\ last' = [op |-> op, arg |-> arg, err |-> r.err, out |-> r.out,
                events |-> r.run.events, log |-> r.run.log,
                fault |-> Injected(env, r.run.events), follows |-> bootstrapped]
    /\ bootstrapped' = CreatedSchema(op, r)
    /\ applied' = Applied(op, arg, r)
    /\ UNCHANGED <<databaseURL, pgdatabase, migrationsTableName, databaseName>>

CallPing ==
    /\ Built
    /\ \E env \in Faults(2) : Return("Ping", <<>>, Ping(Drv, Run(server), env), env)


CallDatabaseExists ==
    /\ Built
    /\ \E env \in Faults(2) :
            Return("DatabaseExists", <<>>, DatabaseExists(Drv, Run(server), env), env)

CallCreateDatabase ==
    /\ Built
    /\ \E env \in Faults(2) :
            Return("CreateDatabase", <<>>, CreateDatabase(Drv, Run(server), env), env)

CallDropDatabase ==
    /\ Built
    /\ \E env \in Faults(2) :
            Return("DropDatabase", <<>>, DropDatabase(Drv, Run(server), env), env)

CallCreateMigrationsTable ==
    /\ Built
    /\ \E env \in Faults(5) :
            Return("CreateMigrationsTable", <<>>,
                   CreateMigrationsTable(Drv, Run(server), env), env)

CallSelectMigrations ==
    /\ Built
    /\ \E env \in Faults(4), limit \in Limits :
            Return("SelectMigrations", limit,
                   SelectMigrations(Drv, Run(server), env, limit), env)

CallInsertMigration ==
    /\ Built
    /\ \E env \in Faults(3), version \in Versions :
            Return("InsertMigration", version,
                   InsertMigration(Drv, Run(server), env, version), env)

CallDeleteMigration ==
    /\ Built
    /\ \E env \in Faults(3), version \in Versions :
            Return("DeleteMigration", version,
                   DeleteMigration(Drv, Run(server), env, version), env)

CallSchemaMigrationsDump ==
    /\ Built
    /\ \E env \in Faults(3) :
            Return("schemaMigrationsDump", <<>>,
                   schemaMigrationsDump(Drv, Run(server), env), env)

\* the configurations of the driver and the server behaviours start from:
\* the ledger in the session's schema, in the default schema because the
\* session's schema does not exist, and in a schema of its own that the
\* caller may or may not create
Setups ==
    { [name |-> <<"t">>, session |-> Public, canCreateSchema |-> TRUE],
      [name |-> <<"t">>, session |-> <<"S">>, canCreateSchema |-> TRUE],
      [name |-> <<"S", ".", "t">>, session |-> Public, canCreateSchema |-> TRUE],
      [name |-> <<"S", ".", "t">>, session |-> Public, canCreateSchema |-> FALSE] }

\* the driver constructed over a database that exists, with its default schema
Init ==
    /\ databaseURL = [path |-> <<"/", "d", "b">>, user |-> NoUser, search_path |-> <<>>]
    /\ pgdatabase = <<>>
    /\ databaseName = resolveDatabaseName(databaseURL, pgdatabase)
    /\ \E c \in Setups :
          /\ migrationsTableName = c.name
          /\ server = [dbExists |-> TRUE, canCreateSchema |-> c.canCreateSchema,
                       searchPath |-> c.session,
                       schemas |-> {Public}, tables |-> {}, rows |-> {}]
    /\ openHandles = 0
    /\ last = Start
    /\ bootstrapped = <<>>
    /\ applied = {}

Next ==
    \/ CallPing
    \/ CallDatabaseExists
    \/ CallCreateDatabase
    \/ CallDropDatabase
    \/ CallCreateMigrationsTable
    \/ CallSelectMigrations
    \/ CallInsertMigration
    \/ CallDeleteMigration
    \/ CallSchemaMigrationsDump

Spec == Init /\ [][Next]_vars

----------------------------------------------------------------------------
(* the Table Locator on its own: every configured name and search path *)

\* the schema and parts as the call's value
PartsReturned(r) == Ret(r.err, [schema |-> r.schema, parts |-> r.parts], r.run)

CallMigrationsTableNameParts ==
    /\ Built
    /\ \E env \in Faults(1) :
            Return("migrationsTableNameParts", <<>>,
                   PartsReturned(migrationsTableNameParts(Drv, Run(server), env)), env)

InitLocator ==
    /\ \E name \in TableNames, sp \in SearchPaths :
          /\ migrationsTableName = name
          /\ databaseURL = [path |-> <<"/", "d", "b">>, user |-> NoUser, search_path |-> sp]
    /\ pgdatabase = <<>>
    /\ databaseName = resolveDatabaseName(databaseURL, pgdatabase)
    /\ \E session \in SessionSchemas :
          server = [dbExists |-> TRUE, canCreateSchema |-> TRUE, searchPath |-> session,
                    schemas |-> {Public, <<"x">>}, tables |-> {}, rows |-> {}]
    /\ openHandles = 0
    /\ last = Start
    /\ bootstrapped = <<>>
    /\ applied = {}

NextLocator == CallMigrationsTableNameParts

SpecLocator == InitLocator /\ [][NextLocator]_vars

----------------------------------------------------------------------------
(* construction on its own: every URL path, user and PGDATABASE *)

Unbuilt == [Start EXCEPT !.op = "none"]

\* NewDriver
NewDriver ==
    /\ last = Unbuilt
    /\ databaseName' = resolveDatabaseName(databaseURL, pgdatabase)
    /\ last' = Start
    /\ UNCHANGED <<databaseURL, pgdatabase, migrationsTableName, server,
                   openHandles, bootstrapped, applied>>

InitName ==
    /\ \E path \in UrlPaths, user \in UrlUsers :
          databaseURL = [path |-> path, user |-> user, search_path |-> <<>>]
    /\ pgdatabase \in EnvNames
    /\ migrationsTableName = <<"t">>
    /\ databaseName = <<>>
    /\ server = [dbExists |-> TRUE, canCreateSchema |-> TRUE, searchPath |-> Public,
                 schemas |-> {Public}, tables |-> {}, rows |-> {}]
    /\ openHandles = 0
    /\ last = Unbuilt
    /\ bootstrapped = <<>>
    /\ applied = {}

NextName == NewDriver

SpecName == InitName /\ [][NextName]_vars

----------------------------------------------------------------------------
(* properties *)

\* the events of the last call with a statement of one of the kinds
EventsOf(kinds) ==
    SelectSeq(last.events, LAMBDA e : e.stmt \in kinds)

\* what the open-and-ping probe of the last call came to: the failure of
\* sql.Open, or else the result of db.Ping
ProbeResult ==
    LET opens == EventsOf({"open"})
        pings == EventsOf({"ping"})
    IN  IF opens # <<>> /\ opens[1].err # Nil THEN opens[1].err
        ELSE IF pings # <<>> THEN pings[1].err
        ELSE Nil

ProbeRan == EventsOf({"open"}) # <<>>

IsDatabaseMissing(e) == e = PqError(DatabaseDoesNotExist)

\* C1: Ping() returns nil exactly when the probe succeeds or fails with
\* "database does not exist" (3D000), and returns every other probe failure
\* to the caller unmodified.
C1_PingReturnsOtherFailures ==
    (last.op = "Ping" /\ ProbeRan) =>
        IF ProbeResult = Nil \/ IsDatabaseMissing(ProbeResult)
        THEN last.err = Nil
        ELSE last.err = ProbeResult

\* C2: DatabaseExists() has three outcomes: probe succeeds -> (true, nil);
\* probe fails with 3D000 -> (false, nil); any other failure -> (false, that
\* error).  It never returns true with an error, nor an absent database as
\* an error.
C2_DatabaseExistsOutcomes ==
    (last.op = "DatabaseExists" /\ ProbeRan) =>
        /\ ProbeResult = Nil => (last.out = TRUE /\ last.err = Nil)
        /\ IsDatabaseMissing(ProbeResult) => (last.out = FALSE /\ last.err = Nil)
        /\ (ProbeResult # Nil /\ ~IsDatabaseMissing(ProbeResult)) =>
              (last.out = FALSE /\ last.err = ProbeResult)
        /\ ~(last.out = TRUE /\ last.err # Nil)
        /\ last.err # PqError(DatabaseDoesNotExist)

\* DatabaseExists() reported an absent database as (false, nil)
C2_Witness ==
    /\ last.op = "DatabaseExists"
    /\ IsDatabaseMissing(ProbeResult)
    /\ last.out = FALSE
    /\ last.err = Nil

\* successful opens and closes among the statements of the last call
OpensOk == Len(SelectSeq(last.events, LAMBDA e : e.stmt = "open" /\ e.err = Nil))
Closes == Len(EventsOf({"close"}))

\* C10: every handle the adapter opens is closed before the call returns, on
\* the success path and on every error path after a successful open, so no
\* adapter-opened handle stays open after any sequence of operations;
\* InsertMigration and DeleteMigration open no handle of their own.
C10_HandlesClosed ==
    /\ openHandles = 0
    /\ OpensOk = Closes
    /\ (Closes > 0 => last.events[Len(last.events)].stmt = "close")
    /\ last.op \in {"Ping", "DatabaseExists", "CreateDatabase", "DropDatabase"} =>
          (last.fault # 1 => OpensOk = 1)
    /\ last.op \in {"InsertMigration", "DeleteMigration"} =>
          EventsOf({"open", "close"}) = <<>>

\* CreateDatabase failed after its maintenance handle was opened, and closed it
C10_Witness ==
    /\ last.op = "CreateDatabase"
    /\ last.err # Nil
    /\ OpensOk = 1
    /\ Closes = 1
    /\ openHandles = 0

\* the CREATE TABLE and CREATE SCHEMA statements of the last call, in order
Ddl == EventsOf({"create_table", "create_schema"})

\* C3: CreateMigrationsTable is a one-retry state machine: a first CREATE
\* TABLE that succeeds ends the call with nil; one that fails with anything
\* but "schema does not exist" (3F000) ends it with that error and no CREATE
\* SCHEMA or second CREATE TABLE; one that fails with 3F000 is followed by
\* CREATE SCHEMA IF NOT EXISTS and, if that succeeded, by exactly one more
\* CREATE TABLE whose result is returned as-is.  At most two CREATE TABLE
\* and one CREATE SCHEMA are issued.
C3_OneRetry ==
    (last.op = "CreateMigrationsTable" /\ Ddl # <<>>) =>
        /\ Ddl[1].stmt = "create_table"
        /\ Ddl[1].err = Nil => (Len(Ddl) = 1 /\ last.err = Nil)
        /\ (Ddl[1].err # Nil /\ Ddl[1].err # PqError(SchemaDoesNotExist)) =>
              (Len(Ddl) = 1 /\ last.err = Ddl[1].err)
        /\ Ddl[1].err = PqError(SchemaDoesNotExist) =>
              /\ Len(Ddl) >= 2
              /\ Ddl[2].stmt = "create_schema"
              /\ Ddl[2].text = SubSeq(Ddl[1].text, 1, Len(Ddl[2].text))
              /\ Ddl[2].err # Nil => (Len(Ddl) = 2 /\ last.err = Ddl[2].err)
              /\ Ddl[2].err = Nil =>
                    /\ Len(Ddl) = 3
                    /\ Ddl[3].stmt = "create_table"
                    /\ Ddl[3].text = Ddl[1].text
                    /\ last.err = Ddl[3].err
        /\ last.events[Len(last.events)] = Ddl[Len(Ddl)]
        /\ Len(EventsOf({"create_table"})) <= 2
        /\ Len(EventsOf({"create_schema"})) <= 1

\* the retry was taken and the second CREATE TABLE failed: its error is returned
C3_Witness ==
    /\ last.op = "CreateMigrationsTable"
    /\ Len(Ddl) = 3
    /\ Ddl[1].err = PqError(SchemaDoesNotExist)
    /\ Ddl[2].err = Nil
    /\ Ddl[3].err # Nil
    /\ last.err = Ddl[3].err

\* the schema the ledger of a call lives in: the one its first statement on
\* the ledger table addresses
LedgerSchema(events) ==
    LET on == SelectSeq(events, LAMBDA e : e.stmt \in {"create_table", "select",
                                                       "insert", "delete"})
    IN  IF on = <<>> THEN <<>> ELSE SchemaOf(on[1].text)

\* a CreateMigrationsTable call is made and nothing fails on the way to the server
CleanCreate ==
    /\ last'.op = "CreateMigrationsTable"
    /\ last'.fault = 0
    /\ server.dbExists

\* C4 (first call): from a database without the resolved ledger schema, and a
\* caller that may create schemas, the call returns nil and leaves the schema
\* and the ledger table existing
C4_First ==
    (/\ CleanCreate
     /\ LedgerSchema(last'.events) \notin server.schemas
     /\ server.canCreateSchema) =>
        /\ last'.err = Nil
        /\ LedgerSchema(last'.events) \in server'.schemas
        /\ LedgerSchema(last'.events) \in server'.tables

\* C4 (second call): called again, it returns nil, issues no CREATE SCHEMA and
\* leaves the database as it was
C4_Again ==
    (/\ CleanCreate
     /\ last.op = "CreateMigrationsTable"
     /\ bootstrapped # <<>>
     /\ LedgerSchema(last'.events) = bootstrapped) =>
        /\ last'.err = Nil
        /\ \A i \in 1..Len(last'.events) : last'.events[i].stmt # "create_schema"
        /\ server' = server

\* C4: ledger-table creation against a schema that does not exist yet creates
\* the schema and the table, and a second creation call is a no-op.
C4_CreateIdempotent == [][C4_First /\ C4_Again]_vars

\* the second of two creation calls in a row returned, the first having
\* created the schema
C4_Witness ==
    /\ last.op = "CreateMigrationsTable"
    /\ last.fault = 0
    /\ last.err = Nil
    /\ last.follows # <<>>
    /\ LedgerSchema(last.events) = last.follows
    /\ last.follows \in server.schemas
    /\ last.follows \in server.tables

\* index of the first occurrence of the character c in s, or 0
FirstIndex(s, c) ==
    IF \E i \in 1..Len(s) : s[i] = c
    THEN CHOOSE i \in 1..Len(s) : s[i] = c /\ \A j \in 1..(i - 1) : s[j] # c
    ELSE 0

\* the text of s before the first c (all of s without c), and after it
Before(s, c) == IF FirstIndex(s, c) = 0 THEN s ELSE SubSeq(s, 1, FirstIndex(s, c) - 1)
After(s, c) == IF FirstIndex(s, c) = 0 THEN <<>> ELSE SubSeq(s, FirstIndex(s, c) + 1, Len(s))

\* the schema segment of the configured name: the text before its first dot
SchemaSegment == IF FirstIndex(migrationsTableName, ".") = 0 THEN <<>>
                 ELSE Before(migrationsTableName, ".")

Located == last.op = "migrationsTableNameParts"

\* C5: for a configured name with a schema segment ("s.t", "s.t.u") the
\* schema is the first segment and the table name the remaining segments,
\* whatever the search_path and the current-schema query would give, and the
\* current-schema query is not issued.
C5_SchemaSegmentWins ==
    (Located /\ SchemaSegment # <<>>) =>
        /\ last.err = Nil
        /\ last.out.schema = SchemaSegment
        /\ Join(last.out.parts, Dot) = After(migrationsTableName, ".")
        /\ \A i \in 1..Len(last.out.parts) : FirstIndex(last.out.parts[i], ".") = 0
        /\ last.events = <<>>

\* "s.t.u" was resolved to schema "s" against a search path and a session
\* schema that name other schemas
C5_Witness ==
    /\ Located
    /\ migrationsTableName = <<"s", ".", "t", ".", "u">>
    /\ databaseURL.search_path = <<"a", ",", "b">>
    /\ server.searchPath = <<"x">>
    /\ last.out = [schema |-> <<"s">>, parts |-> << <<"t">>, <<"u">> >>]

\* the first non-empty string of a sequence, or <<>>
RECURSIVE FirstNonEmpty(_)
FirstNonEmpty(chain) ==
    IF chain = <<>> THEN <<>>
    ELSE IF Head(chain) # <<>> THEN Head(chain)
    ELSE FirstNonEmpty(Tail(chain))

\* the result of the current-schema query of the last call (<<>>: NULL)
CurrentSchemaSeen == CurrentSchema(server)

\* C6: when resolution completes without error the schema is non-empty and
\* is the first non-empty of: the schema segment of the name, the trimmed
\* first entry of search_path, the current-schema result, "public".
C6_SchemaChain ==
    (Located /\ last.err = Nil) =>
        /\ last.out.schema # <<>>
        /\ last.out.schema =
              FirstNonEmpty(<< SchemaSegment,
                               TrimSpace(Before(databaseURL.search_path, ",")),
                               CurrentSchemaSeen,
                               Public >>)

\* ".t" with a blank first search_path entry and no current schema was
\* resolved to the default schema
C6_Witness ==
    /\ Located
    /\ last.err = Nil
    /\ migrationsTableName = <<".", "t">>
    /\ databaseURL.search_path = <<" ", ",", "b">>
    /\ CurrentSchemaSeen = <<>>
    /\ EventsOf({"current_schema"}) # <<>>
    /\ last.out.schema = Public

\* the path of the URL without its leading slash
PathSegment == IF databaseURL.path # <<>> /\ Head(databaseURL.path) = "/"
               THEN Tail(databaseURL.path) ELSE databaseURL.path

\* C7: the database name is the URL's path segment (leading "/" removed) if
\* non-empty, else PGDATABASE if non-empty, else the URL's user name if it
\* has user info, else empty; with an empty path and no override it is the
\* user name, and empty without a user.
C7_DatabaseNameOrder ==
    last.op = "NewDriver" =>
        /\ PathSegment # <<>> => databaseName = PathSegment
        /\ (PathSegment = <<>> /\ pgdatabase # <<>>) => databaseName = pgdatabase
        /\ (PathSegment = <<>> /\ pgdatabase = <<>> /\ databaseURL.user.set) =>
              databaseName = databaseURL.user.username
        /\ (PathSegment = <<>> /\ pgdatabase = <<>> /\ ~databaseURL.user.set) =>
              databaseName = <<>>
        /\ (databaseURL.path \in {<<>>, <<"/">>} /\ pgdatabase = <<>>) =>
              databaseName = databaseURL.user.username

\* a driver built for the URL path "/" with a user and no override took the
\* user's name
C7_Witness ==
    /\ last.op = "NewDriver"
    /\ databaseURL.path = <<"/">>
    /\ pgdatabase = <<>>
    /\ databaseURL.user = User(<<"b", "o", "b">>)
    /\ databaseName = <<"b", "o", "b">>

\* the ledger section of the last dump after its header
DumpRest == SubSeq(last.out, Len(DumpHeader) + 1, Len(last.out))

\* the opening of the INSERT statement of the last dump
DumpInsertHead == InsertInto \o EventsOf({"select"})[1].text \o VersionValues

\* the versions the INSERT statement of the last dump lists, in its order
DumpListed ==
    UnquoteLiterals(
        Split(SubSeq(DumpRest, Len(DumpInsertHead) + 1, Len(DumpRest) - Len(InsertEnd)),
              RowSeparator))

Dumped == last.op = "schemaMigrationsDump" /\ last.err = Nil

\* C8: after any sequence of successful InsertMigration and DeleteMigration
\* calls the ledger section of the dump is the fixed header followed by one
\* multi-row INSERT listing exactly the versions inserted and not deleted
\* since, each once, in ascending version order; the header alone when there
\* are none.
C8_DumpListsLedger ==
    Dumped =>
        /\ HasPrefix(last.out, DumpHeader)
        /\ applied = {} => DumpRest = <<>>
        /\ applied # {} =>
              /\ HasPrefix(DumpRest, DumpInsertHead)
              /\ SubSeq(DumpRest, Len(DumpRest) - Len(InsertEnd) + 1, Len(DumpRest)) = InsertEnd
              /\ Range(DumpListed) = applied
              /\ Len(DumpListed) = Cardinality(applied)
              /\ \A i \in 1..(Len(DumpListed) - 1) :
                    StrLess(DumpListed[i], DumpListed[i + 1])

\* "20230101" and "20230102" were inserted and the dump lists them in that order
C8_Witness ==
    /\ Dumped
    /\ applied = {VersionList[1], VersionList[2]}
    /\ DumpListed = <<VersionList[1], VersionList[2]>>

Selected == last.op = "SelectMigrations" /\ last.err = Nil

\* C9: SelectMigrations(limit) with limit >= 0 returns at most limit
\* versions, the limit greatest of the ledger in descending order (none for
\* 0, all when the ledger is smaller); with limit < 0 it returns every
\* version.
C9_SelectLimit ==
    Selected =>
        IF last.arg < 0
        THEN last.out = applied
        ELSE /\ Cardinality(last.out) <= last.arg
             /\ last.out \subseteq applied
             /\ Cardinality(last.out) = last.arg \/ last.out = applied
             /\ \A v \in last.out, w \in applied \ last.out : StrLess(w, v)

\* with two versions in the ledger, limit 1 returned the greater one only
C9_Witness ==
    /\ Selected
    /\ last.arg = 1
    /\ applied = {VersionList[1], VersionList[2]}
    /\ last.out = {VersionList[2]}

====
